---- MODULE Spec2Model ----
(***************************************************************************)
(* Expenses-Tracker-Pro: the expense record validator (Expense), the JSON  *)
(* repository (JSONRepository) and the ledger (ExpenseManager) of          *)
(* src/expense_tracker.py.                                                 *)
(*                                                                         *)
(* Text is a sequence of characters.  A date is a sequence of code points  *)
(* (48..57 are '0'..'9'), so that Python's str comparison, len, isdigit    *)
(* and int() can be computed on it.  A description is a sequence of        *)
(* one-character strings.  An amount is a record [k, v]: k = "num" is a    *)
(* finite float whose value is v hundredths, "nan", "inf" and "ninf" are   *)
(* the non-finite floats, "numtext" is a str that float() parses to v      *)
(* hundredths, "text" is a str that float() cannot parse and "none" is     *)
(* None.  The results of float arithmetic are IEEE 754 doubles.            *)
(***************************************************************************)
EXTENDS Integers, Sequences, FiniteSets, TLC

VARIABLES
    expenses,   \* ExpenseManager.expenses: the in-memory ledger
    file,       \* content of the repository's JSON file
    now,        \* the wall clock read by datetime.now()
    last,       \* the last call made and what it returned
    pre,        \* expenses as they were when the last call started
    atLoad,     \* how the running process was constructed (load outcome)
    held        \* the list a caller got from get_all_expenses and still holds

vars == <<expenses, file, now, last, pre, atLoad, held>>

----------------------------------------------------------------------------
(* Bounds of the model *)

MaxLen == 3        \* longest ledger explored
MaxClock == 2      \* last clock value explored

(* Program constants *)

DateLen == 8
MinDay == 1
MaxDay == 31
MinMonth == 1
MaxMonth == 12
MinYear == 1900
MaxYear == 2100
MaxDescriptionLen == 100
AmountLimit == 1000000

\* class ExpenseCategory
ExpenseCategory ==
    <<"Food", "Travel", "Shopping", "Entertainment",
      "Utilities", "Health", "Education", "Other">>

Range(s) == {s[i] : i \in DOMAIN s}

----------------------------------------------------------------------------
(* Text helpers: what the str methods used by the code compute *)

\* the text of a run of ASCII digits, e.g. Str(<<1,5,0,1,2,0,2,4>>) is "15012024"
Str(ds) == [i \in DOMAIN ds |-> 48 + ds[i]]

Rep(c, n) == [i \in 1..n |-> c]

\* str.isdigit on one character: ASCII digits, and digits that are not
\* decimal, such as SUPERSCRIPT TWO (178)
IsDigitChar(c) == c \in 48..57 \/ c = 178

isdigit(s) == Len(s) > 0 /\ \A i \in DOMAIN s : IsDigitChar(s[i])

\* int() accepts decimal digits only; it raises ValueError on the others
IsDecimalChar(c) == c \in 48..57

CanInt(s) == Len(s) > 0 /\ \A i \in DOMAIN s : IsDecimalChar(s[i])

\* int(s[from:to]), the slice taken from 0-based from up to to, not included
RECURSIVE int(_, _, _)
int(s, from, to) ==
    IF to <= from THEN 0 ELSE 10 * int(s, from, to - 1) + (s[to] - 48)

Whitespace == {" ", "\t", "\n"}

RECURSIVE lstrip(_)
lstrip(s) == IF Len(s) > 0 /\ s[1] \in Whitespace THEN lstrip(Tail(s)) ELSE s

RECURSIVE rstrip(_)
rstrip(s) == IF Len(s) > 0 /\ s[Len(s)] \in Whitespace
             THEN rstrip(SubSeq(s, 1, Len(s) - 1)) ELSE s

\* str.strip
strip(s) == rstrip(lstrip(s))

\* str <= str: code point by code point, a proper prefix is smaller
RECURSIVE StrLE(_, _)
StrLE(a, b) ==
    IF Len(a) = 0 THEN TRUE
    ELSE IF Len(b) = 0 THEN FALSE
    ELSE IF a[1] # b[1] THEN a[1] < b[1]
    ELSE StrLE(Tail(a), Tail(b))

----------------------------------------------------------------------------
(* Amounts: float(amount) and the comparisons made on its result *)

Num(v) == [k |-> "num", v |-> v]
NaN == [k |-> "nan", v |-> 0]
PosInf == [k |-> "inf", v |-> 0]
NegInf == [k |-> "ninf", v |-> 0]
TextAmount == [k |-> "text", v |-> 0]
NoneAmount == [k |-> "none", v |-> 0]
\* a str that float() parses, such as "10.50": the text of v hundredths
NumText(v) == [k |-> "numtext", v |-> v]

\* float(x) raises ValueError on a str that is no number, TypeError on None
FloatRaises(a) == a.k \in {"text", "none"}

\* amount_float <= 0; every comparison with NaN is False
FloatLEZero(a) == (a.k \in {"num", "numtext"} /\ a.v <= 0) \/ a.k = "ninf"

\* amount_float > 1000000 (v is in hundredths)
FloatGTLimit(a) ==
    (a.k \in {"num", "numtext"} /\ a.v > AmountLimit * 100) \/ a.k = "inf"

----------------------------------------------------------------------------
(* Arithmetic on floats.  A float is an IEEE 754 double: NaN, zero, or a    *)
(* positive value m * 2^e whose significand m is a sequence of Precision   *)
(* binary digits, the first of them 1.  The amounts a ledger holds are     *)
(* positive, so negative values, subnormals and overflow do not arise.     *)

Precision == 53

FloatNaN == [k |-> "nan", m |-> <<>>, e |-> 0]
FloatZero == [k |-> "float", m |-> <<>>, e |-> 0]
Float(m, e) == [k |-> "float", m |-> m, e |-> e]

Zeros(n) == [i \in 1..n |-> 0]

\* the binary digits of a natural number, most significant first
RECURSIVE Bits(_)
Bits(n) == IF n = 0 THEN <<>> ELSE Append(Bits(n \div 2), n % 2)

\* the digits without their leading zeros
RECURSIVE Norm(_)
Norm(b) == IF Len(b) > 0 /\ b[1] = 0 THEN Norm(Tail(b)) ELSE b

\* the number a short run of digits stands for
RECURSIVE Val(_)
Val(b) == IF Len(b) = 0 THEN 0 ELSE 2 * Val(SubSeq(b, 1, Len(b) - 1)) + b[Len(b)]

\* Long numbers are added and divided Limb digits at a time
Limb == 8

\* the w digits of n, leading zeros included
PadBits(n, w) == Zeros(w - Len(Bits(n))) \o Bits(n)

\* b with leading zeros up to a whole number of limbs, at least w digits
Limbs(b, w) ==
    LET n == IF Len(b) > w THEN Len(b) ELSE w
    IN Zeros(((n + Limb - 1) \div Limb) * Limb - Len(b)) \o b

\* the i low limbs d of a + b and the carry c out of them
RECURSIVE AddLow(_, _, _)
AddLow(a, b, i) ==
    IF i = 0 THEN [d |-> <<>>, c |-> 0]
    ELSE LET p == AddLow(a, b, i - 1)
             to == Len(a) - (i - 1) * Limb
             t == Val(SubSeq(a, to - Limb + 1, to))
                  + Val(SubSeq(b, to - Limb + 1, to)) + p.c
         IN [d |-> PadBits(t % (2 ^ Limb), Limb) \o p.d, c |-> t \div (2 ^ Limb)]

\* the digits of a + b
AddBits(a, b) ==
    LET x == Limbs(a, Len(b))
        y == Limbs(b, Len(a))
        r == AddLow(x, y, Len(x) \div Limb)
    IN Norm((IF r.c = 1 THEN <<1>> ELSE <<>>) \o r.d)

\* quotient digits q and remainder r of the i high limbs of b divided by n
RECURSIVE DivHigh(_, _, _)
DivHigh(b, n, i) ==
    IF i = 0 THEN [q |-> <<>>, r |-> 0]
    ELSE LET p == DivHigh(b, n, i - 1)
             t == p.r * (2 ^ Limb) + Val(SubSeq(b, (i - 1) * Limb + 1, i * Limb))
         IN [q |-> p.q \o PadBits(t \div n, Limb), r |-> t % n]

\* quotient digits and remainder of the division of b by the small number n
DivBits(b, n) ==
    LET x == Limbs(b, 0)
        d == DivHigh(x, n, Len(x) \div Limb)
    IN [q |-> Norm(d.q), r |-> d.r]

\* the double nearest to (b + a fraction) * 2^e, ties to even; sticky tells
\* that the fraction left out of b is not zero
RoundBits(b, e, sticky) ==
    IF Len(b) <= Precision
    THEN Float(b \o Zeros(Precision - Len(b)), e - (Precision - Len(b)))
    ELSE LET q == SubSeq(b, 1, Precision)
             rest == sticky \/ \E i \in (Precision + 2)..Len(b) : b[i] = 1
             up == b[Precision + 1] = 1 /\ (rest \/ q[Precision] = 1)
             r == IF up THEN AddBits(q, <<1>>) ELSE q
         IN IF Len(r) > Precision
            THEN Float(SubSeq(r, 1, Precision), e + Len(b) - Precision + 1)
            ELSE Float(r, e + Len(b) - Precision)

\* the double nearest to b * 2^e / n, for b # 0 and 0 < n < 2^9
DivRound(b, e, n) ==
    LET s == IF Len(b) < Precision + 12 THEN Precision + 12 - Len(b) ELSE 0
        d == DivBits(b \o Zeros(s), n)
    IN RoundBits(d.q, e - s, d.r # 0)

\* float + float
FloatAdd(x, y) ==
    IF x.k = "nan" \/ y.k = "nan" THEN FloatNaN
    ELSE IF Len(x.m) = 0 THEN y
    ELSE IF Len(y.m) = 0 THEN x
    ELSE LET e == IF x.e < y.e THEN x.e ELSE y.e
         IN RoundBits(AddBits(x.m \o Zeros(x.e - e), y.m \o Zeros(y.e - e)),
                      e, FALSE)

\* float / int, for an int n with 0 < n < 2^9
FloatDiv(x, n) ==
    IF x.k = "nan" THEN FloatNaN
    ELSE IF Len(x.m) = 0 THEN FloatZero
    ELSE DivRound(x.m, x.e, n)

\* float < float; every comparison with NaN is False
FloatLT(x, y) ==
    /\ x.k # "nan"
    /\ y.k # "nan"
    /\ Len(y.m) > 0
    /\ \/ Len(x.m) = 0
       \/ x.e < y.e
       \/ /\ x.e = y.e
          /\ \E p \in 1..Precision :
                x.m[p] < y.m[p] /\ \A i \in 1..(p - 1) : x.m[i] = y.m[i]

\* the float an amount of the ledger is, when it is one: the double nearest
\* to v hundredths, or NaN
FloatOf(a) ==
    IF a.k = "nan" THEN FloatNaN
    ELSE IF a.v = 0 THEN FloatZero
    ELSE DivRound(Bits(a.v), 0, 100)

----------------------------------------------------------------------------
(* Expense *)

\* Expense._validate_inputs, lines 170-178
validate_amount(a) ==
    IF FloatRaises(a) THEN "InvalidAmount"
    ELSE IF FloatLEZero(a) THEN "NonPositiveAmount"
    ELSE IF FloatGTLimit(a) THEN "AmountTooLarge"
    ELSE "ok"

\* validate_description with the length limit off by one
validate_description_ge(d) ==
    IF Len(d) = 0 \/ Len(strip(d)) = 0 THEN "EmptyDescription"
    ELSE IF Len(d) >= MaxDescriptionLen THEN "DescriptionTooLong"
    ELSE "ok"

\* Expense._validate_inputs, lines 163-168
validate_description(d) ==
    IF Len(d) = 0 \/ Len(strip(d)) = 0 THEN "EmptyDescription"
    ELSE IF Len(d) > MaxDescriptionLen THEN "DescriptionTooLong"
    ELSE "ok"

\* Expense._validate_inputs, lines 155-161
validate_category(c) ==
    IF c \notin Range(ExpenseCategory) THEN "UnknownCategory" ELSE "ok"

\* Expense._validate_inputs, lines 140-153.  The ValueError that int() raises
\* on a digit that is not decimal (in any of the three slices, which cover
\* the date) is turned into a rejection of the date (line 153); it is
\* reported as a malformed date.
validate_date(date) ==
    IF Len(date) = 0 \/ Len(date) # DateLen \/ ~isdigit(date) THEN "MalformedDate"
    ELSE IF ~CanInt(date) THEN "MalformedDate"
    ELSE LET day == int(date, 0, 2)
             month == int(date, 2, 4)
             year == int(date, 4, 8)
         IN IF ~(MinDay <= day /\ day <= MaxDay /\ MinMonth <= month
                 /\ month <= MaxMonth /\ MinYear <= year /\ year <= MaxYear)
            THEN "DateOutOfRange"
            ELSE "ok"

\* Expense._validate_inputs: "ok", or the reason of the ValidationError raised
validate_inputs(date, category, description, amount) ==
    LET d == validate_date(date)
        c == validate_category(category)
        t == validate_description(description)
    IN IF d # "ok" THEN d
       ELSE IF c # "ok" THEN c
       ELSE IF t # "ok" THEN t
       ELSE validate_amount(amount)

\* the four raw fields a caller supplies
Input(date, category, description, amount) ==
    [date |-> date, category |-> category, description |-> description,
     amount |-> amount]

Validate(inp) ==
    validate_inputs(inp.date, inp.category, inp.description, inp.amount)

\* Expense.__init__ once validation has passed: the fields are stored as given
\* and created_at is stamped with the clock
Expense(inp, t) ==
    [date |-> inp.date, category |-> inp.category,
     description |-> inp.description, amount |-> inp.amount, created_at |-> t]

\* Expense.to_dict
to_dict(e) ==
    [date |-> e.date, category |-> e.category, description |-> e.description,
     amount |-> e.amount, created_at |-> e.created_at]

\* what Expense.from_dict passes to the constructor: data['created_at'] is not read
DictInput(d) == Input(d.date, d.category, d.description, d.amount)

\* Expense.from_dict, when the constructor accepts the fields
from_dict(d, t) == Expense(DictInput(d), t)

----------------------------------------------------------------------------
(* JSONRepository *)

JsonFile(items) == [kind |-> "json", items |-> items]
CorruptFile == [kind |-> "corrupt", items |-> <<>>]
MissingFile == [kind |-> "missing", items |-> <<>>]

\* JSONRepository._ensure_file_exists
ensure_file_exists(f) == IF f.kind = "missing" THEN JsonFile(<<>>) ELSE f

\* outcomes of the file system calls
LoadIO == {"ok", "read_failed"}
SaveIO == {"ok", "open_failed", "write_failed"}

\* JSONRepository.load: every exception becomes a DataPersistenceError
load(f, io, t) ==
    IF io = "read_failed" \/ f.kind # "json"
       \/ \E i \in DOMAIN f.items : Validate(DictInput(f.items[i])) # "ok"
    THEN [ok |-> FALSE, expenses |-> <<>>]
    ELSE [ok |-> TRUE,
          expenses |-> [i \in DOMAIN f.items |-> from_dict(f.items[i], t)]]

\* what JSONRepository._save_data leaves in the file: open(filename, 'w')
\* truncates it before json.dump writes the whole list
save_data(data, f, io) ==
    IF io = "open_failed" THEN f
    ELSE IF io = "write_failed" THEN CorruptFile
    ELSE JsonFile(data)

\* save writing the newest record after what the file holds
save_incremental(es, f, io) ==
    [ok |-> io = "ok",
     file |-> save_data(IF Len(es) = 0 THEN <<>>
                        ELSE Append(f.items, to_dict(es[Len(es)])), f, io)]

\* JSONRepository.save: the whole list is converted and written
save(es, f, io) ==
    [ok |-> io = "ok",
     file |-> save_data([i \in DOMAIN es |-> to_dict(es[i])], f, io)]

----------------------------------------------------------------------------
(* ExpenseManager *)

NoInput == Input(<<>>, "", <<>>, NoneAmount)
NoRec == Expense(NoInput, -1)

\* A list a caller holds is a reference: to the manager's own list
\* self.expenses ("self"), or to a list object of its own ("own") with items.
NoList == [ref |-> "none", items |-> <<>>]
SelfList == [ref |-> "self", items |-> <<>>]
OwnList(items) == [ref |-> "own", items |-> items]

\* the items of the list h refers to, when the manager's list holds es
Items(h, es) == IF h.ref = "self" THEN es ELSE h.items

\* get_all_expenses handing out the manager's list itself
get_all_expenses_live == SelfList

\* ExpenseManager.get_all_expenses: self.expenses.copy(), a new list object
\* holding the same records
get_all_expenses == OwnList(expenses)

\* the record kept in last: the call, its arguments and what it returned
\* (after_add: a delete that removed a record right after a successful add)
Outcome(op, inp, index, ok, msg, reason, saves, rec) ==
    [op |-> op, input |-> inp, index |-> index, ok |-> ok, msg |-> msg,
     reason |-> reason, saves |-> saves, rec |-> rec,
     after_add |-> FALSE, start |-> <<>>, end |-> <<>>, result |-> <<>>]

\* pop taking the index as the 1-based position shown to the user
pop_one_based(es, index) ==
    [i \in 1..(Len(es) - 1) |-> IF i < index THEN es[i] ELSE es[i + 1]]

\* pop filling the hole with the last element instead of shifting
pop_swap(es, index) ==
    [i \in 1..(Len(es) - 1) |-> IF i = index + 1 THEN es[Len(es)] ELSE es[i]]

\* list.pop(index) for 0 <= index < len: what is left of the list
pop(es, index) ==
    [i \in 1..(Len(es) - 1) |-> IF i <= index THEN es[i] ELSE es[i + 1]]

\* ExpenseManager.__init__ and _load_expenses of a process started on file f:
\* a failed load is logged and leaves the empty list
Construct(f, io, t) ==
    LET f1 == ensure_file_exists(f)
        r == load(f1, io, t)
    IN /\ file' = f1
       /\ expenses' = (IF r.ok THEN r.expenses ELSE <<>>)
       /\ pre' = <<>>
       /\ last' = Outcome("construct", NoInput, 0, r.ok,
                          IF r.ok THEN "Loaded" ELSE "Using empty expense list",
                          "", 0, NoRec)
       /\ atLoad' = [failed |-> ~r.ok, written |-> FALSE]
       /\ held' = NoList

\* add_expense appending before the fields are validated
add_expense_append_first(inp, io) ==
    LET reason == Validate(inp)
        expense == Expense(inp, now)
        appended == Append(expenses, expense)
        s == save(appended, file, io)
    IN /\ pre' = expenses
       /\ expenses' = appended
       /\ IF reason # "ok"
          THEN /\ last' = Outcome("add", inp, 0, FALSE, "Validation Error",
                                  reason, 0, NoRec)
               /\ UNCHANGED <<file, atLoad>>
          ELSE /\ file' = s.file
               /\ atLoad' = [atLoad EXCEPT !.written = @ \/ io # "open_failed"]
               /\ last' = Outcome("add", inp, 0, s.ok,
                                  IF s.ok THEN "Expense added" ELSE "Save Error",
                                  "ok", 1, expense)
       /\ UNCHANGED <<now, held>>

\* add_expense taking the record back when the save fails
add_expense_rollback(inp, io) ==
    LET reason == Validate(inp)
        expense == Expense(inp, now)
        appended == Append(expenses, expense)
        s == save(appended, file, io)
    IN /\ pre' = expenses
       /\ IF reason # "ok"
          THEN /\ last' = Outcome("add", inp, 0, FALSE, "Validation Error",
                                  reason, 0, NoRec)
               /\ UNCHANGED <<expenses, file, atLoad>>
          ELSE /\ expenses' = (IF s.ok THEN appended ELSE expenses)
               /\ file' = s.file
               /\ atLoad' = [atLoad EXCEPT !.written = @ \/ io # "open_failed"]
               /\ last' = Outcome("add", inp, 0, s.ok,
                                  IF s.ok THEN "Expense added" ELSE "Save Error",
                                  "ok", 1, expense)
       /\ UNCHANGED <<now, held>>

\* ExpenseManager.add_expense
add_expense(inp, io) ==
    LET reason == Validate(inp)
        expense == Expense(inp, now)
        appended == Append(expenses, expense)
        s == save(appended, file, io)
    IN /\ pre' = expenses
       /\ IF reason # "ok"
          THEN /\ last' = Outcome("add", inp, 0, FALSE, "Validation Error",
                                  reason, 0, NoRec)
               /\ UNCHANGED <<expenses, file, atLoad>>
          ELSE /\ expenses' = appended
               /\ file' = s.file
               /\ atLoad' = [atLoad EXCEPT !.written = @ \/ io # "open_failed"]
               /\ last' = Outcome("add", inp, 0, s.ok,
                                  IF s.ok THEN "Expense added" ELSE "Save Error",
                                  "ok", 1, expense)
       /\ UNCHANGED <<now, held>>

\* delete_expense taking a negative index from the end, as list.pop does
delete_expense_from_end(index, io) ==
    LET at == IF index < 0 THEN index + Len(expenses) ELSE index
        left == pop(expenses, at)
        s == save(left, file, io)
    IN /\ pre' = expenses
       /\ IF 0 <= at /\ at < Len(expenses)
          THEN /\ expenses' = left
               /\ file' = s.file
               /\ atLoad' = [atLoad EXCEPT !.written = @ \/ io # "open_failed"]
               /\ last' = [Outcome("delete", NoInput, index, s.ok,
                                   IF s.ok THEN "Deleted" ELSE "Delete Error",
                                   "", 1, expenses[at + 1])
                           EXCEPT !.after_add = last.op = "add" /\ last.ok]
          ELSE /\ last' = Outcome("delete", NoInput, index, FALSE,
                                  "Invalid expense number", "", 0, NoRec)
               /\ UNCHANGED <<expenses, file, atLoad>>
       /\ UNCHANGED <<now, held>>

\* ExpenseManager.delete_expense
delete_expense(index, io) ==
    LET left == pop(expenses, index)
        s == save(left, file, io)
    IN /\ pre' = expenses
       /\ IF 0 <= index /\ index < Len(expenses)
          THEN /\ expenses' = left
               /\ file' = s.file
               /\ atLoad' = [atLoad EXCEPT !.written = @ \/ io # "open_failed"]
               /\ last' = [Outcome("delete", NoInput, index, s.ok,
                                   IF s.ok THEN "Deleted" ELSE "Delete Error",
                                   "", 1, expenses[index + 1])
                           EXCEPT !.after_add = last.op = "add" /\ last.ok]
          ELSE /\ last' = Outcome("delete", NoInput, index, FALSE,
                                  "Invalid expense number", "", 0, NoRec)
               /\ UNCHANGED <<expenses, file, atLoad>>
       /\ UNCHANGED <<now, held>>

----------------------------------------------------------------------------
(* The ledger's life: processes are started on the file, and each one adds *)
(* and deletes until it exits                                              *)

Digits(a, b, c, d, e, f, g, h) == Str(<<a, b, c, d, e, f, g, h>>)

Lunch == Input(Digits(1,5,0,1,2,0,2,4), "Food", <<"a">>, Num(1050))
Train == Input(Digits(0,1,0,2,2,0,2,4), "Travel", <<"b", " ">>, Num(2000))
\* float('nan'), which the amount prompt's float(input()) returns for "nan"
NanLunch == Input(Digits(3,1,1,2,2,0,2,3), "Food", <<"c">>, NaN)

\* fields the validator rejects, one for each of the four
BadInputs ==
    { Input(Str(<<1,5,0,1,2,0,2>>), "Food", <<"a">>, Num(1050)),
      Input(Digits(1,5,0,1,2,0,2,4), "food", <<"a">>, Num(1050)),
      Input(Digits(1,5,0,1,2,0,2,4), "Food", <<" ">>, Num(1050)),
      Input(Digits(1,5,0,1,2,0,2,4), "Food", <<"a">>, Num(0)) }

AddInputs == {Lunch, Train} \cup BadInputs

\* amounts as the prompt's float() can return them, "nan" included
FloatInputs == {Lunch, NanLunch}

\* files a first process may find: none, an unreadable one, saved ledgers,
\* and a hand-edited one holding a record the validator rejects
InitialFiles ==
    { MissingFile, CorruptFile, JsonFile(<<>>),
      JsonFile(<<to_dict(Expense(Lunch, 0))>>),
      JsonFile(<<to_dict(Expense(Lunch, 0)),
                 to_dict(Expense(Input(Lunch.date, "food", <<"a">>, Num(1050)), 0))>>) }

\* the state a first process is in once constructed on one of files
InitOn(files, ios) ==
    /\ now = 0
    /\ \E f \in files, io \in ios :
          LET f1 == ensure_file_exists(f)
              r == load(f1, io, 0)
          IN /\ file = f1
             /\ expenses = (IF r.ok THEN r.expenses ELSE <<>>)
             /\ pre = <<>>
             /\ last = Outcome("construct", NoInput, 0, r.ok,
                               IF r.ok THEN "Loaded" ELSE "Using empty expense list",
                               "", 0, NoRec)
             /\ atLoad = [failed |-> ~r.ok, written |-> FALSE]
             /\ held = NoList

Init == InitOn(InitialFiles, LoadIO)

\* a call of add_expense with fields drawn from inputs; the outcome of the
\* save is drawn where the call reaches repository.save
AddFrom(inputs) ==
    \E inp \in inputs :
        IF Validate(inp) # "ok"
        THEN add_expense(inp, "ok")
        ELSE /\ Len(expenses) < MaxLen
             /\ \E io \in SaveIO : add_expense(inp, io)

AddExpense == AddFrom(AddInputs)

AddFloat == AddFrom(FloatInputs)

DeleteExpense ==
    \E index \in -1..MaxLen :
        IF 0 <= index /\ index < Len(expenses)
        THEN \E io \in SaveIO : delete_expense(index, io)
        ELSE delete_expense(index, "ok")

\* the process exits and a new one is started on the same file
Restart ==
    \E io \in LoadIO : Construct(file, io, now) /\ UNCHANGED now

Next == AddExpense \/ DeleteExpense \/ Restart

Spec == Init /\ [][Next]_vars

\* the same life, with the amounts float() can return
NextFloat == AddFloat \/ DeleteExpense \/ Restart

SpecFloat == Init /\ [][NextFloat]_vars

\* the clock advances between calls
Tick ==
    /\ now < MaxClock
    /\ now' = now + 1
    /\ UNCHANGED <<expenses, file, last, pre, atLoad, held>>

AddLunch == AddFrom({Lunch})

\* processes that add records, exit and are started again as time passes
NextClock == AddLunch \/ Tick \/ Restart

SpecClock == InitOn({MissingFile}, {"ok"}) /\ [][NextClock]_vars

----------------------------------------------------------------------------
(* Queries on a loaded ledger *)

\* ExpenseManager.filter_by_date_range with both bounds excluded
filter_by_date_range_exclusive(es, start_date, end_date) ==
    SelectSeq(es, LAMBDA exp : /\ StrLE(start_date, exp.date)
                              /\ start_date # exp.date
                              /\ StrLE(exp.date, end_date)
                              /\ end_date # exp.date)

\* ExpenseManager.filter_by_date_range
filter_by_date_range(es, start_date, end_date) ==
    SelectSeq(es, LAMBDA exp : StrLE(start_date, exp.date)
                              /\ StrLE(exp.date, end_date))

NewYear == Input(Digits(0,1,0,1,2,0,2,4), "Other", <<"d">>, Num(500))
YearEnd == Input(Digits(3,1,1,2,2,0,2,3), "Food", <<"e">>, Num(3000))

QueryDicts == {to_dict(Expense(inp, 0)) : inp \in {Lunch, Train, NewYear, YearEnd}}

\* the ledgers a process may have saved before
QueryFiles ==
    {JsonFile(items) : items \in UNION {[1..n -> QueryDicts] : n \in 0..MaxLen}}

\* the bounds a caller passes: dates, and text that is no date
QueryBounds ==
    { Digits(0,1,0,1,2,0,2,4), Digits(3,1,0,1,2,0,2,4), Digits(1,5,0,1,2,0,2,4),
      Digits(3,1,1,2,2,0,2,3), Str(<<0,1,0,2>>), <<>> }

FilterByDateRange ==
    \E start_date \in QueryBounds, end_date \in QueryBounds :
        /\ last' = [Outcome("filter", NoInput, 0, TRUE, "", "", 0, NoRec)
                    EXCEPT !.start = start_date, !.end = end_date,
                           !.result = filter_by_date_range(expenses, start_date,
                                                           end_date)]
        /\ UNCHANGED <<expenses, file, now, pre, atLoad, held>>

NextQuery == FilterByDateRange

SpecQuery == InitOn(QueryFiles, {"ok"}) /\ [][NextQuery]_vars

----------------------------------------------------------------------------
(* Aggregates.  An amount is stored as it was given (Expense.__init__ keeps *)
(* amount, not float(amount)): a float, or the text of a number, on which  *)
(* Python's + raises TypeError.  A call returns [ok, value]; ok is FALSE   *)
(* when the call raised.                                                   *)

Returned(value) == [ok |-> TRUE, value |-> value]
RaisedTypeError == [ok |-> FALSE, value |-> "TypeError"]

\* the amounts of es, in order
Amounts(es) == [i \in DOMAIN es |-> es[i].amount]

\* int + str and float + str raise TypeError
AllFloats(amounts) == \A i \in DOMAIN amounts : amounts[i].k \in {"num", "nan"}

\* sum(amounts): ((0 + a1) + a2) + ...
RECURSIVE sum(_)
sum(amounts) ==
    IF Len(amounts) = 0 THEN FloatZero
    ELSE FloatAdd(sum(SubSeq(amounts, 1, Len(amounts) - 1)),
                  FloatOf(amounts[Len(amounts)]))

\* min(amounts): a later item replaces the one kept only when it is < it
RECURSIVE min(_)
min(amounts) ==
    IF Len(amounts) = 1 THEN FloatOf(amounts[1])
    ELSE LET kept == min(SubSeq(amounts, 1, Len(amounts) - 1))
             item == FloatOf(amounts[Len(amounts)])
         IN IF FloatLT(item, kept) THEN item ELSE kept

\* max(amounts): a later item replaces the one kept only when it is > it
RECURSIVE max(_)
max(amounts) ==
    IF Len(amounts) = 1 THEN FloatOf(amounts[1])
    ELSE LET kept == max(SubSeq(amounts, 1, Len(amounts) - 1))
             item == FloatOf(amounts[Len(amounts)])
         IN IF FloatLT(kept, item) THEN item ELSE kept

\* ExpenseManager.get_total_spending
get_total_spending(es) ==
    IF AllFloats(Amounts(es)) THEN Returned(sum(Amounts(es))) ELSE RaisedTypeError

\* ExpenseManager.get_average_spending
get_average_spending(es) ==
    IF Len(es) = 0 THEN Returned(FloatZero)
    ELSE IF ~get_total_spending(es).ok THEN RaisedTypeError
    ELSE Returned(FloatDiv(get_total_spending(es).value, Len(es)))

\* ExpenseManager.filter_by_category
filter_by_category(es, category) ==
    SelectSeq(es, LAMBDA exp : exp.category = category)

\* ExpenseManager.get_spending_by_category: the dict breakdown, a function
\* on its keys
get_spending_by_category(es) ==
    IF ~AllFloats(Amounts(es)) THEN RaisedTypeError
    ELSE Returned([c \in {es[i].category : i \in DOMAIN es} |->
                      sum(Amounts(filter_by_category(es, c)))])

\* the entry of get_category_statistics for a category with records
CategoryStats(expenses_of) ==
    LET amounts == Amounts(expenses_of)
    IN [count |-> Len(expenses_of),
        total |-> sum(amounts),
        average |-> FloatDiv(sum(amounts), Len(amounts)),
        min |-> min(amounts),
        max |-> max(amounts)]

\* ExpenseManager.get_category_statistics: the dict stats, a function on
\* its keys
get_category_statistics(es) ==
    IF ~AllFloats(Amounts(es)) THEN RaisedTypeError
    ELSE Returned([c \in {c \in Range(ExpenseCategory) :
                             Len(filter_by_category(es, c)) > 0} |->
                      CategoryStats(filter_by_category(es, c))])

----------------------------------------------------------------------------
(* A caller that keeps the list returned by get_all_expenses while the     *)
(* ledger goes on changing, and that changes the list it was given         *)

\* the caller asks for all the records and keeps the list returned
GetAllExpenses ==
    /\ held' = get_all_expenses
    /\ last' = Outcome("get_all", NoInput, 0, TRUE, "", "", 0, NoRec)
    /\ UNCHANGED <<expenses, file, now, pre, atLoad>>

\* the caller changes the list it holds so that it holds items: the list
\* object that changes is the one the reference leads to
ChangeHeld(op, items) ==
    /\ held.ref # "none"
    /\ IF held.ref = "self"
       THEN expenses' = items /\ held' = held
       ELSE held' = OwnList(items) /\ expenses' = expenses
    /\ last' = Outcome(op, NoInput, 0, TRUE, "", "", 0, NoRec)
    /\ UNCHANGED <<file, now, pre, atLoad>>

\* list.append of a record the caller made
HeldAppend ==
    /\ Len(Items(held, expenses)) < MaxLen
    /\ ChangeHeld("held.append",
                  Append(Items(held, expenses), Expense(Train, now)))

\* list.pop(0)
HeldPop ==
    /\ Len(Items(held, expenses)) > 0
    /\ ChangeHeld("held.pop", Tail(Items(held, expenses)))

\* list.reverse
HeldReverse ==
    ChangeHeld("held.reverse",
               [i \in DOMAIN Items(held, expenses) |->
                   Items(held, expenses)[Len(Items(held, expenses)) + 1 - i]])

\* add_expense and delete_expense called while the caller holds the list; the
\* store takes every save here (a save that fails leaves the same list in
\* memory, and what it leaves in the store is explored by Spec)
AddWhileHeld ==
    \E inp \in {Lunch, Train} :
        Len(expenses) < MaxLen /\ add_expense(inp, "ok")

DeleteWhileHeld == \E index \in -1..MaxLen : delete_expense(index, "ok")

NextSnapshot ==
    AddWhileHeld \/ DeleteWhileHeld \/ GetAllExpenses
    \/ HeldAppend \/ HeldPop \/ HeldReverse

SpecSnapshot == InitOn({MissingFile}, {"ok"}) /\ [][NextSnapshot]_vars

----------------------------------------------------------------------------
(* Aggregate queries on a loaded ledger *)

Dime == Input(Digits(1,5,0,1,2,0,2,4), "Food", <<"f">>, Num(10))
Fare == Input(Digits(1,5,0,1,2,0,2,4), "Travel", <<"g">>, Num(10))
Ten == Input(Digits(1,5,0,1,2,0,2,4), "Food", <<"h">>, Num(1000))
Twenty == Input(Digits(1,5,0,1,2,0,2,4), "Food", <<"i">>, Num(2000))
Thirty == Input(Digits(1,5,0,1,2,0,2,4), "Food", <<"j">>, Num(3000))
\* a record whose amount is the JSON string "10.50"
TextLunch == Input(Digits(1,5,0,1,2,0,2,4), "Food", <<"k">>, NumText(1050))

StatDicts ==
    {to_dict(Expense(inp, 0)) :
        inp \in {Dime, Fare, Ten, Twenty, Thirty, NanLunch, TextLunch}}

\* the stores a process may be started on
StatFiles ==
    {JsonFile(items) : items \in UNION {[1..n -> StatDicts] : n \in 0..MaxLen}}

\* a query was called and returned (or raised) r
Queried(op, r) ==
    /\ last' = [Outcome(op, NoInput, 0, r.ok, IF r.ok THEN "" ELSE r.value,
                        "", 0, NoRec)
                EXCEPT !.result = r.value]
    /\ UNCHANGED <<expenses, file, now, pre, atLoad, held>>

GetTotalSpending == Queried("total", get_total_spending(expenses))

GetAverageSpending == Queried("average", get_average_spending(expenses))

GetSpendingByCategory == Queried("by_category", get_spending_by_category(expenses))

GetCategoryStatistics == Queried("statistics", get_category_statistics(expenses))

NextStats ==
    GetTotalSpending \/ GetAverageSpending \/ GetSpendingByCategory
    \/ GetCategoryStatistics

SpecStats == InitOn(StatFiles, {"ok"}) /\ [][NextStats]_vars

----------------------------------------------------------------------------
(* The validator alone: a caller holds four raw fields and constructs an   *)
(* Expense from them                                                       *)

ValidateDates ==
    { Digits(1,5,0,1,2,0,2,4), Digits(3,1,0,2,2,0,2,4), Digits(0,0,0,1,2,0,2,4),
      Digits(3,2,0,1,2,0,2,4), Digits(0,1,0,0,2,0,2,4), Digits(0,1,1,3,2,0,2,4),
      Digits(0,1,0,1,1,8,9,9), Digits(0,1,0,1,1,9,0,0), Digits(3,1,1,2,2,1,0,0),
      Digits(0,1,0,1,2,1,0,1), Str(<<1,5,0,1,2,0,2>>), Str(<<1,5,0,1,2,0,2,4,0>>),
      <<>>, Str(<<1,5,0,1,2,0,2>>) \o <<97>>, Str(<<0,1,0,1>>) \o <<178>> \o Str(<<0,2,4>>) }

ValidateCategories == {"Food", "Other", "food", ""}

ValidateDescriptions ==
    { <<>>, <<" ", "\t">>, <<"a">>, <<" ", "a", " ">>,
      Rep("a", MaxDescriptionLen), Rep("a", MaxDescriptionLen + 1),
      <<" ">> \o Rep("a", MaxDescriptionLen),
      Rep("a", MaxDescriptionLen - 1) \o <<" ", " ">>,
      Rep(" ", MaxDescriptionLen + 1) }

ValidateAmounts ==
    { Num(1), Num(1050), Num(AmountLimit * 100), Num(AmountLimit * 100 + 1),
      Num(0), Num(-500), NaN, PosInf, NegInf, TextAmount, NoneAmount }

ValidateInputs ==
    { Input(d, c, t, a) : d \in ValidateDates, c \in ValidateCategories,
                          t \in ValidateDescriptions, a \in ValidateAmounts }

\* a fresh process on an empty store whose caller has read the fields inp
InitValidate ==
    /\ now = 0
    /\ expenses = <<>>
    /\ pre = <<>>
    /\ file = JsonFile(<<>>)
    /\ atLoad = [failed |-> FALSE, written |-> FALSE]
    /\ held = NoList
    /\ \E inp \in ValidateInputs :
          last = Outcome("fields", inp, 0, TRUE, "", "", 0, NoRec)

\* Expense(date, category, description, amount): the record, or the
\* ValidationError raised
NewExpense ==
    /\ last.op = "fields"
    /\ LET reason == Validate(last.input)
       IN last' = Outcome("validate", last.input, 0, reason = "ok",
                          IF reason = "ok" THEN "" ELSE "Validation Error",
                          reason, 0,
                          IF reason = "ok" THEN Expense(last.input, now) ELSE NoRec)
    /\ UNCHANGED <<expenses, file, now, pre, atLoad, held>>

NextValidate == NewExpense

SpecValidate == InitValidate /\ [][NextValidate]_vars

----------------------------------------------------------------------------
(* The record invariants of the data model, stated on the stored fields *)

DigitOf(c) == c - 48

DateInvariant(d) ==
    /\ Len(d) = 8
    /\ \A i \in 1..8 : d[i] \in 48..57
    /\ LET day == 10 * DigitOf(d[1]) + DigitOf(d[2])
           month == 10 * DigitOf(d[3]) + DigitOf(d[4])
           year == 1000 * DigitOf(d[5]) + 100 * DigitOf(d[6])
                   + 10 * DigitOf(d[7]) + DigitOf(d[8])
       IN day \in 1..31 /\ month \in 1..12 /\ year \in 1900..2100

CategoryInvariant(c) ==
    c \in {"Food", "Travel", "Shopping", "Entertainment",
           "Utilities", "Health", "Education", "Other"}

\* length of the text between its first and its last non-blank character
TrimmedLen(d) ==
    LET solid == {i \in DOMAIN d : d[i] \notin Whitespace}
    IN IF solid = {} THEN 0
       ELSE (CHOOSE i \in solid : \A j \in solid : j <= i)
            - (CHOOSE i \in solid : \A j \in solid : i <= j) + 1

DescriptionInvariant(d) == TrimmedLen(d) \in 1..100

AmountInvariant(a) == a.k = "num" /\ 0 < a.v /\ a.v <= 1000000 * 100

RecordInvariant(e) ==
    /\ DateInvariant(e.date)
    /\ CategoryInvariant(e.category)
    /\ DescriptionInvariant(e.description)
    /\ AmountInvariant(e.amount)

----------------------------------------------------------------------------
\* C1: in every reachable state of the ledger, every record of the in-memory
\* sequence satisfies the record invariants: its date is 8 digits with day in
\* 1..31, month in 1..12 and year in 1900..2100, its category is one of the 8
\* labels, its description has trimmed length in 1..100 and its amount is
\* > 0 and <= 1,000,000.
C1_AllRecordsValid ==
    \A i \in DOMAIN expenses : RecordInvariant(expenses[i])

----------------------------------------------------------------------------
\* the text of d without its leading and trailing blanks
Trimmed(d) ==
    LET solid == {i \in DOMAIN d : d[i] \notin Whitespace}
    IN IF solid = {} THEN <<>>
       ELSE SubSeq(d, CHOOSE i \in solid : \A j \in solid : i <= j,
                      CHOOSE i \in solid : \A j \in solid : j <= i)

\* C2 as stated: every input that satisfies the record invariants, whatever
\* the untrimmed length of its description, is accepted, and the record's
\* date, category, description and amount equal the inputs, the description
\* trimmed.
C2_AcceptsTrimmed ==
    (last.op = "validate" /\ RecordInvariant(last.input)) =>
        /\ last.ok
        /\ last.rec.date = last.input.date
        /\ last.rec.category = last.input.category
        /\ last.rec.description = Trimmed(last.input.description)
        /\ last.rec.amount = last.input.amount

\* C2 as amended: every input that satisfies the record invariants and whose
\* untrimmed description has at most 100 characters is accepted, and the
\* record's date, category, description and amount equal the inputs exactly
\* as given: the description is stored untrimmed.
C2_AcceptsAsGiven ==
    (last.op = "validate" /\ RecordInvariant(last.input)
     /\ Len(last.input.description) <= 100) =>
        /\ last.ok
        /\ last.rec.date = last.input.date
        /\ last.rec.category = last.input.category
        /\ last.rec.description = last.input.description
        /\ last.rec.amount = last.input.amount

\* an input with blanks around its description has been accepted
C2_Witness ==
    /\ last.op = "validate"
    /\ RecordInvariant(last.input)
    /\ Len(last.input.description) <= 100
    /\ TrimmedLen(last.input.description) < Len(last.input.description)
    /\ last.ok
    /\ last.rec # NoRec

----------------------------------------------------------------------------
\* the reason of the first failing check, in the order the claim gives
ClaimedReason(inp) ==
    IF ~(Len(inp.date) = 8 /\ \A i \in DOMAIN inp.date : inp.date[i] \in 48..57)
    THEN "MalformedDate"
    ELSE IF ~DateInvariant(inp.date) THEN "DateOutOfRange"
    ELSE IF ~CategoryInvariant(inp.category) THEN "UnknownCategory"
    ELSE IF TrimmedLen(inp.description) = 0 THEN "EmptyDescription"
    ELSE IF Len(inp.description) > 100 THEN "DescriptionTooLong"
    ELSE IF inp.amount.k \in {"text", "none"} THEN "InvalidAmount"
    ELSE IF inp.amount.k = "ninf" \/ (inp.amount.k = "num" /\ inp.amount.v <= 0)
         THEN "NonPositiveAmount"
    ELSE IF inp.amount.k = "inf"
            \/ (inp.amount.k = "num" /\ inp.amount.v > 1000000 * 100)
         THEN "AmountTooLarge"
    ELSE "ok"

\* the invariants inp violates, each named by the reasons that report it
ViolatedInvariants(inp) ==
    (IF DateInvariant(inp.date) THEN {} ELSE {{"MalformedDate", "DateOutOfRange"}})
    \cup (IF CategoryInvariant(inp.category) THEN {} ELSE {{"UnknownCategory"}})
    \cup (IF DescriptionInvariant(inp.description) THEN {}
          ELSE {{"EmptyDescription", "DescriptionTooLong"}})
    \cup (IF AmountInvariant(inp.amount) THEN {}
          ELSE {{"InvalidAmount", "NonPositiveAmount", "AmountTooLarge"}})

\* C3: validate rejects with the reason of the first failing check in the
\* order date format, date ranges, category, description empty, description
\* longer than 100, amount not numeric, amount <= 0, amount > 1,000,000; and
\* every input that violates exactly one invariant is rejected with one of
\* that invariant's reasons.
C3_FirstFailingReason ==
    last.op = "validate" =>
        /\ last.reason = ClaimedReason(last.input)
        /\ \A reasons \in ViolatedInvariants(last.input) :
              ViolatedInvariants(last.input) = {reasons} =>
                  ~last.ok /\ last.reason \in reasons

----------------------------------------------------------------------------
(* Claims about add and delete *)

\* the five stored fields of every record of es, in order
Persisted(es) ==
    [i \in DOMAIN es |->
        [date |-> es[i].date, category |-> es[i].category,
         description |-> es[i].description, amount |-> es[i].amount,
         created_at |-> es[i].created_at]]

\* the four user fields of every record of es, in order
Content(es) ==
    [i \in DOMAIN es |->
        <<es[i].date, es[i].category, es[i].description, es[i].amount>>]

\* es without its element at 0-based position k
Without(es, k) == SubSeq(es, 1, k) \o SubSeq(es, k + 2, Len(es))

ValidationReasons ==
    {"MalformedDate", "DateOutOfRange", "UnknownCategory", "EmptyDescription",
     "DescriptionTooLong", "InvalidAmount", "NonPositiveAmount", "AmountTooLarge"}

\* C4: an add whose fields fail validation returns failure with a validation
\* reason, leaves the in-memory ledger and the persisted store unchanged and
\* does not invoke save.
C4_RejectedAddChangesNothing ==
    [][(last'.op = "add" /\ Validate(last'.input) # "ok") =>
          /\ ~last'.ok
          /\ last'.msg = "Validation Error"
          /\ last'.reason \in ValidationReasons
          /\ last'.saves = 0
          /\ expenses' = expenses
          /\ file' = file]_vars

\* a rejected add on a ledger that holds records and has them stored
C4_Witness ==
    /\ last.op = "add"
    /\ ~last.ok
    /\ last.msg = "Validation Error"
    /\ Len(expenses) >= 2
    /\ file = JsonFile(Persisted(expenses))

\* C5 as stated: when add passes validation but save fails, the record stays
\* appended, the store keeps its previous content and add reports a storage
\* failure; when delete has a valid index but save fails, the record stays
\* removed, the store still contains it and delete reports a storage failure.
C5_StoreKeepsContent ==
    [][/\ (last'.op = "add" /\ last'.saves = 1 /\ ~last'.ok) =>
            /\ expenses' = Append(expenses, last'.rec)
            /\ Content(<<last'.rec>>) = Content(<<last'.input>>)
            /\ last'.msg = "Save Error"
            /\ file' = file
       /\ (last'.op = "delete" /\ last'.saves = 1 /\ ~last'.ok) =>
            /\ expenses' = Without(expenses, last'.index)
            /\ last'.rec = expenses[last'.index + 1]
            /\ last'.msg = "Delete Error"
            /\ file' = file
            /\ \E i \in DOMAIN file'.items :
                  file'.items[i] = Persisted(<<last'.rec>>)[1]]_vars

\* C5 as amended: when add passes validation but save fails, the record stays
\* appended at the end of the in-memory ledger and add reports a storage
\* failure; when delete has a valid index but save fails, the record stays
\* removed from memory and delete reports a storage failure.  In both cases
\* the store keeps its previous content (which holds the deleted record only
\* if an earlier save stored it) or, when the failure interrupts the write, is
\* left truncated.
C5_NoRollback ==
    [][/\ (last'.op = "add" /\ last'.saves = 1 /\ ~last'.ok) =>
            /\ expenses' = Append(expenses, last'.rec)
            /\ Content(<<last'.rec>>) = Content(<<last'.input>>)
            /\ last'.msg = "Save Error"
            /\ file' = file \/ file' = CorruptFile
       /\ (last'.op = "delete" /\ last'.saves = 1 /\ ~last'.ok) =>
            /\ expenses' = Without(expenses, last'.index)
            /\ last'.rec = expenses[last'.index + 1]
            /\ last'.msg = "Delete Error"
            /\ file' = file \/ file' = CorruptFile]_vars

\* an add whose save failed: the ledger is one record ahead of the store
C5_Witness ==
    /\ last.op = "add"
    /\ last.saves = 1
    /\ ~last.ok
    /\ Len(pre) >= 1
    /\ expenses = Append(pre, last.rec)
    /\ file = JsonFile(Persisted(pre))

\* C6: after any add or delete whose save succeeded the persisted sequence
\* equals the whole in-memory sequence, record for record and in order; every
\* validated add and every in-bounds delete attempts exactly one save.
C6_SavedEqualsMemory ==
    /\ (last.op \in {"add", "delete"} /\ last.ok) =>
           file = JsonFile(Persisted(expenses))
    /\ (last.op = "add" /\ Validate(last.input) = "ok") => last.saves = 1
    /\ (last.op = "delete" /\ 0 <= last.index /\ last.index < Len(pre)) =>
           last.saves = 1

\* a delete saved the remaining records in a process whose load had failed
C6_Witness ==
    /\ last.op = "delete"
    /\ last.ok
    /\ Len(expenses) >= 1
    /\ atLoad.failed
    /\ file = JsonFile(Persisted(expenses))

\* C7: a load that fails at construction leaves an empty ledger and an
\* unmodified store, and the records the store held then are not destroyed by
\* the adds and deletes that follow.
C7_StoredRecordsSurvive ==
    [][/\ (last'.op = "construct" /\ ~last'.ok) =>
            expenses' = <<>> /\ file' = file
       /\ (atLoad.failed /\ ~atLoad.written) =>
            \A i \in DOMAIN file.items :
                \E j \in DOMAIN file'.items : file'.items[j] = file.items[i]]_vars

\* C9 as stated: a successful add followed by delete(0) returns the ledger to
\* its pre-add state (created_at ignored).
C9_AddThenDeleteFirst ==
    [][(last.op = "add" /\ last.ok /\ last'.op = "delete" /\ last'.index = 0) =>
          Content(expenses') = Content(pre)]_vars

\* C9 as amended: a successful add followed by a delete of the last position
\* (the index equal to the pre-add length, which is 0 only when the ledger
\* was empty before the add) returns the ledger to its pre-add state
\* (created_at ignored).
C9_AddThenDeleteLast ==
    [][(last.op = "add" /\ last.ok /\ last'.op = "delete"
        /\ last'.index = Len(pre)) =>
          Content(expenses') = Content(pre)]_vars

\* a delete of the last position has followed a successful add on a ledger
\* that held records
C9_Witness ==
    /\ last.op = "delete"
    /\ last.after_add
    /\ last.saves = 1
    /\ last.index = Len(expenses)
    /\ last.index >= 1

----------------------------------------------------------------------------
\* C8: saving a ledger and loading it back yields a sequence of the same
\* length and order whose records equal the originals in all five fields,
\* created_at included: a save/load cycle does not change created_at.
C8_RoundTrip ==
    [][(last'.op = "construct" /\ last'.ok
        /\ file = JsonFile(Persisted(expenses))) =>
          /\ Len(expenses') = Len(expenses)
          /\ \A i \in DOMAIN expenses :
                /\ expenses'[i].date = expenses[i].date
                /\ expenses'[i].category = expenses[i].category
                /\ expenses'[i].description = expenses[i].description
                /\ expenses'[i].amount = expenses[i].amount
                /\ expenses'[i].created_at = expenses[i].created_at]_vars

----------------------------------------------------------------------------
\* a <= b in the lexicographic order of code points: a is a prefix of b, or
\* a has the smaller character where the two first differ
LexLE(a, b) ==
    \/ Len(a) <= Len(b) /\ \A i \in DOMAIN a : a[i] = b[i]
    \/ \E p \in DOMAIN a \cap DOMAIN b :
          /\ a[p] < b[p]
          /\ \A i \in 1..(p - 1) : a[i] = b[i]

\* positions of the ledger whose date lies in [start, end]
InRange(es, start, end) ==
    {i \in DOMAIN es : LexLE(start, es[i].date) /\ LexLE(es[i].date, end)}

\* the k-th smallest member of a set of positions
Kth(positions, k) ==
    CHOOSE i \in positions : Cardinality({j \in positions : j <= i}) = k

\* the records the filter returned are those at the positions hits, in order
ReturnsExactly(hits) ==
    /\ Len(last.result) = Cardinality(hits)
    /\ \A k \in DOMAIN last.result : last.result[k] = expenses[Kth(hits, k)]

\* every record of the ledger with this date is in the result
Includes(date) ==
    \A i \in DOMAIN expenses :
        expenses[i].date = date =>
            \E k \in DOMAIN last.result : last.result[k] = expenses[i]

\* no record of the result has this date
Excludes(date) == \A k \in DOMAIN last.result : last.result[k].date # date

January2024 ==
    last.start = Digits(0,1,0,1,2,0,2,4) /\ last.end = Digits(3,1,0,1,2,0,2,4)

\* C10 as stated: filterByDateRange(start, end) returns, in ledger order,
\* exactly the records whose date d satisfies start <= d <= end as strings,
\* bounds included; from "01012024" to "31012024" it includes the records
\* dated "15012024" and excludes those dated "01022024" and "31122023".
C10_ExcludesFebruary ==
    last.op = "filter" =>
        /\ ReturnsExactly(InRange(expenses, last.start, last.end))
        /\ January2024 =>
              /\ Includes(Digits(1,5,0,1,2,0,2,4))
              /\ Excludes(Digits(0,1,0,2,2,0,2,4))
              /\ Excludes(Digits(3,1,1,2,2,0,2,3))

\* C10 as amended: filterByDateRange(start, end) returns, in ledger order,
\* exactly the records whose date d satisfies start <= d <= end as strings,
\* bounds included; from "01012024" to "31012024" it includes the records
\* dated "15012024" and those dated "01022024", which lies between the bounds
\* as a string, and excludes those dated "31122023".
C10_DateRangeLexicographic ==
    last.op = "filter" =>
        /\ ReturnsExactly(InRange(expenses, last.start, last.end))
        /\ January2024 =>
              /\ Includes(Digits(1,5,0,1,2,0,2,4))
              /\ Includes(Digits(0,1,0,2,2,0,2,4))
              /\ Excludes(Digits(3,1,1,2,2,0,2,3))

\* January 2024 was asked of a ledger that holds the three dates of the
\* example: the first two were returned, the third was not
C10_Witness ==
    /\ last.op = "filter"
    /\ January2024
    /\ \E k \in DOMAIN last.result : last.result[k].date = Digits(1,5,0,1,2,0,2,4)
    /\ \E k \in DOMAIN last.result : last.result[k].date = Digits(0,1,0,2,2,0,2,4)
    /\ \E i \in DOMAIN expenses : expenses[i].date = Digits(3,1,1,2,2,0,2,3)
    /\ Len(last.result) < Len(expenses)

----------------------------------------------------------------------------
\* C11: delete(index) with index < 0 or index >= length returns InvalidIndex,
\* a failure distinct from a storage failure, leaves the in-memory ledger
\* unchanged and does not invoke save.
C11_InvalidIndexChangesNothing ==
    [][(last'.op = "delete"
        /\ (last'.index < 0 \/ last'.index >= Len(expenses))) =>
          /\ ~last'.ok
          /\ last'.msg = "Invalid expense number"
          /\ last'.msg # "Delete Error"
          /\ last'.saves = 0
          /\ expenses' = expenses
          /\ file' = file]_vars

\* a negative index was refused on a ledger that holds records
C11_Witness ==
    /\ last.op = "delete"
    /\ last.index < 0
    /\ last.msg = "Invalid expense number"
    /\ Len(expenses) >= 2
    /\ expenses = pre

----------------------------------------------------------------------------
\* C12: delete(i) with 0 <= i < length removes exactly the record at position
\* i: the ledger length decreases by one, records before i keep their
\* positions, every record after i moves down by exactly one position, and no
\* other record is removed, reordered or altered.
C12_DeleteShiftsDown ==
    [][(last'.op = "delete" /\ 0 <= last'.index
        /\ last'.index < Len(expenses)) =>
          /\ Len(expenses') = Len(expenses) - 1
          /\ last'.rec = expenses[last'.index + 1]
          /\ \A p \in 0..(Len(expenses) - 1) :
                /\ p < last'.index => expenses'[p + 1] = expenses[p + 1]
                /\ p > last'.index => expenses'[p] = expenses[p + 1]]_vars

\* a record that is neither the first nor the last was deleted from a ledger
\* whose records around it differ
C12_Witness ==
    /\ last.op = "delete"
    /\ last.saves = 1
    /\ Len(pre) = 3
    /\ last.index = 1
    /\ pre[1] # pre[3]
    /\ pre[2] # pre[3]
    /\ expenses = <<pre[1], pre[3]>>

----------------------------------------------------------------------------
\* C13: allRecords returns a snapshot copy of the sequence: after a caller
\* obtains it, any later add or delete on the ledger leaves the previously
\* returned sequence (its length, order and members) unchanged, and changes
\* to the returned sequence do not change the ledger.
C13_SnapshotCopy ==
    [][/\ last'.op = "get_all" => Items(held', expenses') = expenses
       /\ (held.ref # "none" /\ last'.op \in {"add", "delete"}) =>
             Items(held', expenses') = Items(held, expenses)
       /\ last'.op \in {"held.append", "held.pop", "held.reverse"} =>
             expenses' = expenses /\ file' = file]_vars

\* the caller holds a list that it changed and that the ledger has since
\* outgrown: the two differ in length and in members
C13_Witness ==
    /\ held.ref # "none"
    /\ last.op = "add"
    /\ last.saves = 1
    /\ Len(Items(held, expenses)) >= 1
    /\ Len(expenses) > Len(Items(held, expenses))
    /\ Items(held, expenses)[1] # expenses[1]

----------------------------------------------------------------------------
(* Claims about the aggregates.  Equality and order of amounts are those   *)
(* of the numbers the program holds: NaN equals nothing and is below or    *)
(* above nothing.                                                         *)

\* x == y on floats
FloatEQ(x, y) == x.k # "nan" /\ y.k # "nan" /\ x = y

\* x <= y on floats
FloatLE(x, y) == FloatLT(x, y) \/ FloatEQ(x, y)

\* the positions of es whose record has the category c
Positions(es, c) == {i \in DOMAIN es : es[i].category = c}

\* the categories that occur in at least one record of es
Occurring(es) == {es[i].category : i \in DOMAIN es}

\* the sum of the amounts at the positions up to n that are in where, added
\* in ledger order
RECURSIVE SumUpTo(_, _, _)
SumUpTo(es, where, n) ==
    IF n = 0 THEN FloatZero
    ELSE IF n \in where
         THEN FloatAdd(SumUpTo(es, where, n - 1), FloatOf(es[n].amount))
         ELSE SumUpTo(es, where, n - 1)

SumAt(es, where) == SumUpTo(es, where, Len(es))

\* C14: in every reachable ledger state the aggregate queries never fail:
\* totalSpending equals the sum of the amount fields of all records and is 0
\* for the empty ledger; averageSpending equals totalSpending divided by the
\* record count and is 0 (not an error) for the empty ledger.
C14_TotalAndAverage ==
    /\ last.op = "total" =>
          /\ last.ok
          /\ FloatEQ(last.result, SumAt(expenses, DOMAIN expenses))
          /\ Len(expenses) = 0 => FloatEQ(last.result, FloatZero)
    /\ last.op = "average" =>
          /\ last.ok
          /\ Len(expenses) = 0 => FloatEQ(last.result, FloatZero)
          /\ Len(expenses) > 0 =>
                FloatEQ(last.result,
                        FloatDiv(SumAt(expenses, DOMAIN expenses), Len(expenses)))

----------------------------------------------------------------------------
\* the float of a whole number of units
Units(n) == FloatOf(Num(100 * n))

\* the Food records of the ledger have the amounts 10, 20 and 30, in this
\* order
FoodTenTwentyThirty ==
    Amounts(filter_by_category(expenses, "Food")) = <<Num(1000), Num(2000), Num(3000)>>

\* C15: categoryStatistics returns an entry for exactly those categories of
\* the fixed set that have at least one record in the ledger (categories with
\* zero records are omitted, not zero-filled), and each entry reports count =
\* number of that category's records, total = sum of their amounts, average =
\* total / count, min and max = smallest and largest of their amounts (so
\* min <= average <= max); for amounts [10, 20, 30] it reports count 3, total
\* 60, average 20, min 10, max 30.
C15_CategoryStatistics ==
    last.op = "statistics" =>
        /\ last.ok
        /\ DOMAIN last.result = Occurring(expenses) \cap Range(ExpenseCategory)
        /\ \A c \in DOMAIN last.result :
              LET where == Positions(expenses, c)
                  entry == last.result[c]
              IN /\ entry.count = Cardinality(where)
                 /\ FloatEQ(entry.total, SumAt(expenses, where))
                 /\ FloatEQ(entry.average, FloatDiv(entry.total, entry.count))
                 /\ \E i \in where : FloatEQ(entry.min, FloatOf(expenses[i].amount))
                 /\ \A i \in where : FloatLE(entry.min, FloatOf(expenses[i].amount))
                 /\ \E i \in where : FloatEQ(entry.max, FloatOf(expenses[i].amount))
                 /\ \A i \in where : FloatLE(FloatOf(expenses[i].amount), entry.max)
                 /\ FloatLE(entry.min, entry.average)
                 /\ FloatLE(entry.average, entry.max)
        /\ FoodTenTwentyThirty =>
              /\ last.result["Food"].count = 3
              /\ FloatEQ(last.result["Food"].total, Units(60))
              /\ FloatEQ(last.result["Food"].average, Units(20))
              /\ FloatEQ(last.result["Food"].min, Units(10))
              /\ FloatEQ(last.result["Food"].max, Units(30))

----------------------------------------------------------------------------
\* the ways of putting the members of a set in a row
Orders(S) ==
    {o \in [1..Cardinality(S) -> S] : \A i, j \in DOMAIN o : o[i] = o[j] => i = j}

\* the values of the mapping added up in the order o of its keys
RECURSIVE AddedUp(_, _, _)
AddedUp(mapping, o, n) ==
    IF n = 0 THEN FloatZero
    ELSE FloatAdd(AddedUp(mapping, o, n - 1), mapping[o[n]])

\* C16: in every reachable ledger state, spendingByCategory has as keys
\* exactly the categories that occur in at least one record, each value is
\* the sum of the amounts of that category's records, its key set equals the
\* key set of categoryStatistics with equal per-category totals, and its
\* values add up to totalSpending (in some order of adding them).
C16_BreakdownAddsUp ==
    last.op = "by_category" =>
        /\ last.ok
        /\ DOMAIN last.result = Occurring(expenses)
        /\ \A c \in DOMAIN last.result :
              FloatEQ(last.result[c], SumAt(expenses, Positions(expenses, c)))
        /\ get_category_statistics(expenses).ok
        /\ DOMAIN get_category_statistics(expenses).value = DOMAIN last.result
        /\ \A c \in DOMAIN last.result :
              FloatEQ(get_category_statistics(expenses).value[c].total,
                      last.result[c])
        /\ get_total_spending(expenses).ok
        /\ \E o \in Orders(DOMAIN last.result) :
              FloatEQ(AddedUp(last.result, o, Len(o)),
                      get_total_spending(expenses).value)

====
